---- MODULE Spec2Model ----
(***************************************************************************)
(* Model of pregnancy-food-api/src/routes/analyze.py: the POST /analyze    *)
(* handler (analyze_food), the Gemini client with its inline reply         *)
(* interpreter (call_gemini_api) and the random classifier                 *)
(* (analyze_image_mock).                                                   *)
(*                                                                         *)
(* Python strings are sequences: an image payload is a sequence of         *)
(* one-character strings, a model reply is a sequence of lexical tokens.   *)
(* A JSON value is a record [t, s, e]: t its type, s its scalar text, e    *)
(* its elements (members of an object are records of type "pair").         *)
(* User-facing messages are written in English; the source has them in     *)
(* Japanese.                                                               *)
(***************************************************************************)
EXTENDS Integers, Sequences, FiniteSets, TLC

VARIABLES pc, apiKey, body, reply, response, calls, decodes, keyLookups,
          mockResult

vars == <<pc, apiKey, body, reply, response, calls, decodes, keyLookups,
          mockResult>>

(* Bounds of the model. *)
MaxTail == 2
MaxFoods == 2

BSeq(S, n) == UNION {[1..k -> S] : k \in 0..n}

(***************************************************************************)
(* JSON values.                                                            *)
(***************************************************************************)
JV(t, s, e) == [t |-> t, s |-> s, e |-> e]
JNull == JV("null", "", <<>>)
JTrue == JV("true", "", <<>>)
JFalse == JV("false", "", <<>>)
JNum(s) == JV("num", s, <<>>)
JStr(s) == JV("str", s, <<>>)
JArr(e) == JV("arr", "", e)
JPair(k, v) == JV("pair", k, <<v>>)
JObj(e) == JV("obj", "", e)

(***************************************************************************)
(* AVOID_FOODS and the result messages.                                    *)
(***************************************************************************)
AVOID_FOODS == {"raw_fish", "raw_meat", "raw_egg", "soft_cheese", "alcohol"}

AvoidMessage(food_type) ==
    CASE food_type = "raw_fish" -> "contains raw fish; best avoided during pregnancy"
      [] food_type = "raw_meat" -> "contains raw meat; best avoided during pregnancy"
      [] food_type = "raw_egg" -> "contains raw egg; take care during pregnancy"
      [] food_type = "soft_cheese" -> "contains natural cheese; best avoided during pregnancy"
      [] food_type = "alcohol" -> "contains alcohol; avoid during pregnancy"

AvoidDetails(food_type) ==
    CASE food_type = "raw_fish" -> <<"risk of listeria and parasites">>
      [] food_type = "raw_meat" -> <<"risk of toxoplasma and listeria">>
      [] food_type = "raw_egg" -> <<"risk of salmonella">>
      [] food_type = "soft_cheese" -> <<"risk of listeria">>
      [] food_type = "alcohol" -> <<"may affect fetal development">>

MsgSafe == "this meal is safe to eat during pregnancy"
MsgRisk == "risky food is included; see the details"
MsgNoApiKey == "Gemini API key is not set"
MsgNoJson == "could not extract JSON from the Gemini response"
MsgJsonParseError == "Gemini JSON parse error"
MsgApiCallError == "Gemini API call error"
ErrNoImage == "no image data provided"
ErrInvalidFormat == "invalid image format"
ErrAnalysis == "an error occurred during analysis"

Result(safe, detected_food, message, details) ==
    [safe |-> safe, detected_food |-> detected_food,
     message |-> message, details |-> details]

(***************************************************************************)
(* analyze_image_mock: hit stands for random.random() < 0.3, food_type for *)
(* random.choice(list(AVOID_FOODS.keys())).                                *)
(***************************************************************************)
analyze_image_mock(hit, food_type) ==
    IF hit
    THEN Result(FALSE, JStr(food_type), AvoidMessage(food_type),
                AvoidDetails(food_type))
    ELSE Result(TRUE, JStr("safe_food"), MsgSafe, <<>>)

(***************************************************************************)
(* The image payload: str.startswith, str.split(',')[1], base64.b64decode. *)
(***************************************************************************)
DataImagePrefix == <<"d", "a", "t", "a", ":", "i", "m", "a", "g", "e", "/">>

StartsWith(s, p) == Len(s) >= Len(p) /\ SubSeq(s, 1, Len(p)) = p

HasComma(s) == \E i \in 1..Len(s) : s[i] = ","

FirstComma(s) == CHOOSE i \in 1..Len(s) :
    s[i] = "," /\ \A j \in 1..(i - 1) : s[j] # ","

(* image_data.split(',')[1]: the piece between the first and the second comma. *)
SplitSecond(s) ==
    LET rest == SubSeq(s, FirstComma(s) + 1, Len(s))
    IN  IF HasComma(rest) THEN SubSeq(rest, 1, FirstComma(rest) - 1) ELSE rest

ImageB64(image_data) ==
    IF HasComma(image_data) THEN SplitSecond(image_data) ELSE image_data

(* The characters of the model's payloads that are in the base64 alphabet. *)
B64Alphabet == {"A", "d", "a", "t", "i", "m", "g", "e", "/"}

(* base64.b64decode(s) with validate=False returns (TRUE) or raises          *)
(* binascii.Error (FALSE): characters outside the alphabet are skipped, a    *)
(* pad that completes a quad ends the scan, leftover characters raise.       *)
RECURSIVE B64Scan(_, _, _, _)
B64Scan(s, i, quad_pos, pads) ==
    IF i > Len(s) THEN quad_pos = 0
    ELSE IF s[i] = "="
         THEN IF quad_pos >= 2 /\ quad_pos + pads + 1 >= 4
              THEN TRUE
              ELSE B64Scan(s, i + 1, quad_pos,
                           IF quad_pos >= 2 THEN pads + 1 ELSE pads)
         ELSE IF s[i] \notin B64Alphabet
              THEN B64Scan(s, i + 1, quad_pos, pads)
              ELSE B64Scan(s, i + 1, (quad_pos + 1) % 4, 0)

B64DecodeOk(s) == B64Scan(s, 1, 0, 0)

(***************************************************************************)
(* The reply text: tokens, re.search(r'\{[\s\S]*\}'), json.loads.          *)
(***************************************************************************)
StrLits == {"foods", "name", "risk", "details", "a", "b", "d", "no", ""}
NumToks == {"0", "1"}
Words == {"Here", "thanks"}

(* Mutant: a lazy star, r'\{[\s\S]*?\}': up to the first "}" after the "{". *)
ReSearchLazy(text) ==
    LET opens == {i \in 1..Len(text) : text[i] = "{"}
        lo == IF opens = {} THEN 0
              ELSE CHOOSE i \in opens : \A j \in opens : i <= j
        closes == {i \in 1..Len(text) : text[i] = "}" /\ lo # 0 /\ i > lo}
    IN  IF closes = {} THEN [lo |-> 0, hi |-> 0]
        ELSE [lo |-> lo, hi |-> CHOOSE i \in closes : \A j \in closes : i <= j]

(* re.search(r'\{[\s\S]*\}', text): from the first "{" to the last "}"      *)
(* after it (the star is greedy); lo = 0 when nothing matches.              *)
ReSearch(text) ==
    LET opens == {i \in 1..Len(text) : text[i] = "{"}
        lo == IF opens = {} THEN 0
              ELSE CHOOSE i \in opens : \A j \in opens : i <= j
        closes == {i \in 1..Len(text) : text[i] = "}" /\ lo # 0 /\ i > lo}
    IN  IF closes = {} THEN [lo |-> 0, hi |-> 0]
        ELSE [lo |-> lo, hi |-> CHOOSE i \in closes : \A j \in closes : j <= i]

ParseFail == [ok |-> FALSE, v |-> JNull, p |-> 0]
ParseOk(v, p) == [ok |-> TRUE, v |-> v, p |-> p]

Tok(ts, i) == IF i >= 1 /\ i <= Len(ts) THEN ts[i] ELSE "<eof>"

RECURSIVE ParseValue(_, _), ParseElems(_, _, _), ParseMembers(_, _, _)
ParseValue(ts, i) ==
    LET t == Tok(ts, i)
    IN  IF i > Len(ts) THEN ParseFail
        ELSE IF t \in StrLits THEN ParseOk(JStr(t), i + 1)
        ELSE IF t \in NumToks THEN ParseOk(JNum(t), i + 1)
        ELSE IF t = "true" THEN ParseOk(JTrue, i + 1)
        ELSE IF t = "false" THEN ParseOk(JFalse, i + 1)
        ELSE IF t = "null" THEN ParseOk(JNull, i + 1)
        ELSE IF t = "["
             THEN IF Tok(ts, i + 1) = "]" THEN ParseOk(JArr(<<>>), i + 2)
                  ELSE ParseElems(ts, i + 1, <<>>)
        ELSE IF t = "{"
             THEN IF Tok(ts, i + 1) = "}" THEN ParseOk(JObj(<<>>), i + 2)
                  ELSE ParseMembers(ts, i + 1, <<>>)
        ELSE ParseFail

ParseElems(ts, i, acc) ==
    LET r == ParseValue(ts, i)
    IN  IF ~r.ok THEN ParseFail
        ELSE IF Tok(ts, r.p) = "," THEN ParseElems(ts, r.p + 1, Append(acc, r.v))
        ELSE IF Tok(ts, r.p) = "]" THEN ParseOk(JArr(Append(acc, r.v)), r.p + 1)
        ELSE ParseFail

ParseMembers(ts, i, acc) ==
    IF Tok(ts, i) \notin StrLits \/ Tok(ts, i + 1) # ":" THEN ParseFail
    ELSE LET r == ParseValue(ts, i + 2)
         IN  IF ~r.ok THEN ParseFail
             ELSE LET m == Append(acc, JPair(ts[i], r.v))
                  IN  IF Tok(ts, r.p) = "," THEN ParseMembers(ts, r.p + 1, m)
                      ELSE IF Tok(ts, r.p) = "}" THEN ParseOk(JObj(m), r.p + 1)
                      ELSE ParseFail

(* json.loads(s): the whole of s is one JSON value. *)
JsonLoads(ts) ==
    LET r == ParseValue(ts, 1)
    IN  IF r.ok /\ r.p = Len(ts) + 1 THEN [ok |-> TRUE, v |-> r.v]
        ELSE [ok |-> FALSE, v |-> JNull]

(***************************************************************************)
(* Python operations on the parsed value.                                  *)
(***************************************************************************)
(* d.get(key, default) on a dict: the last member with that key wins. *)
DictGet(d, key, default) ==
    LET hits == {i \in 1..Len(d.e) : d.e[i].s = key}
    IN  IF hits = {} THEN default
        ELSE d.e[CHOOSE i \in hits : \A j \in hits : j <= i].e[1]

DictHas(d, key) == \E i \in 1..Len(d.e) : d.e[i].s = key

(* bool(v) *)
Truthy(v) ==
    CASE v.t = "true" -> TRUE
      [] v.t = "num" -> v.s # "0"
      [] v.t = "str" -> v.s # ""
      [] v.t \in {"arr", "obj"} -> v.e # <<>>
      [] OTHER -> FALSE

(* str(v), as an f-string formats it; containers are not spelled out. *)
PyStr(v) ==
    CASE v.t \in {"str", "num"} -> v.s
      [] v.t = "true" -> "True"
      [] v.t = "false" -> "False"
      [] v.t = "null" -> "None"
      [] OTHER -> "<repr>"

(* for f in v: a list yields its elements, a dict its keys, a non-empty str *)
(* its characters (one stands for them all); None, bool and int raise      *)
(* TypeError.                                                               *)
PyIter(v) ==
    CASE v.t = "arr" -> [ok |-> TRUE, items |-> v.e]
      [] v.t = "obj" -> [ok |-> TRUE, items |-> [i \in 1..Len(v.e) |-> JStr(v.e[i].s)]]
      [] v.t = "str" -> [ok |-> TRUE, items |-> IF v.s = "" THEN <<>> ELSE <<JStr(v.s)>>]
      [] OTHER -> [ok |-> FALSE, items |-> <<>>]

(***************************************************************************)
(* call_gemini_api, after the model has replied: the inline interpreter.   *)
(***************************************************************************)
ApiErrorResult == Result(FALSE, JNull, MsgApiCallError, <<>>)

(* Mutant: the missing-key branch answers with the random classifier. *)
NoKeyResultFromMock == analyze_image_mock(FALSE, "raw_fish")

NoKeyResult == Result(FALSE, JNull, MsgNoApiKey, <<>>)

(* f.get('risk') as a condition *)
IsRisky(f) == Truthy(DictGet(f, "risk", JNull))

(* [f for f in foods if f.get('risk')]: iterating a non-iterable raises      *)
(* TypeError, calling .get on an item that is no dict raises AttributeError. *)
RiskyFoods(foods) ==
    LET it == PyIter(foods)
    IN  IF ~it.ok \/ \E i \in 1..Len(it.items) : it.items[i].t # "obj"
        THEN [ok |-> FALSE, items |-> <<>>]
        ELSE [ok |-> TRUE, items |-> SelectSeq(it.items, IsRisky)]

(* [f['name'] for f in risky_foods] *)
FoodNames(risky_foods) ==
    [i \in 1..Len(risky_foods) |-> DictGet(risky_foods[i], "name", JNull)]

(* '\n'.join([f"{f['name']}: {f['details']}" for f in risky_foods]) *)
RECURSIVE JoinLines(_)
JoinLines(risky_foods) ==
    IF risky_foods = <<>> THEN <<>>
    ELSE LET f == Head(risky_foods)
             line == <<PyStr(DictGet(f, "name", JNull)), ": ",
                       PyStr(DictGet(f, "details", JNull))>>
         IN  IF Len(risky_foods) = 1 THEN line
             ELSE line \o <<"\n">> \o JoinLines(Tail(risky_foods))

(* Mutant: safe is computed from foods, not from risky_foods. *)
VerdictSafeFromAllFoods(foods_data) ==
    LET foods == DictGet(foods_data, "foods", JArr(<<>>))
        risky == RiskyFoods(foods)
    IN  IF ~risky.ok THEN Result(FALSE, JNull, MsgApiCallError, <<>>)
        ELSE IF PyIter(foods).items = <<>>
             THEN Result(TRUE, JArr(<<>>), MsgSafe, <<>>)
        ELSE IF \E i \in 1..Len(risky.items) :
                    ~DictHas(risky.items[i], "name")
                    \/ ~DictHas(risky.items[i], "details")
             THEN Result(FALSE, JNull, MsgApiCallError, <<>>)
        ELSE Result(FALSE, JArr(FoodNames(risky.items)), MsgRisk,
                    JoinLines(risky.items))

(* The verdict computed from the parsed object; a KeyError on f['name'] or  *)
(* f['details'], like any other exception raised here, reaches the outer    *)
(* except clause.                                                           *)
Verdict(foods_data) ==
    LET foods == DictGet(foods_data, "foods", JArr(<<>>))
        risky == RiskyFoods(foods)
    IN  IF ~risky.ok THEN ApiErrorResult
        ELSE IF risky.items = <<>> THEN Result(TRUE, JArr(<<>>), MsgSafe, <<>>)
        ELSE IF \E i \in 1..Len(risky.items) :
                    ~DictHas(risky.items[i], "name")
                    \/ ~DictHas(risky.items[i], "details")
             THEN ApiErrorResult
        ELSE Result(FALSE, JArr(FoodNames(risky.items)), MsgRisk,
                    JoinLines(risky.items))

InterpretReply(text) ==
    LET match == ReSearch(text)
    IN  IF match.lo = 0 THEN Result(FALSE, JNull, MsgNoJson, text)
        ELSE LET foods_json == SubSeq(text, match.lo, match.hi)
                 parsed == JsonLoads(foods_json)
             IN  IF ~parsed.ok \/ parsed.v.t # "obj"
                 THEN Result(FALSE, JNull, MsgJsonParseError, foods_json)
                 ELSE Verdict(parsed.v)

(***************************************************************************)
(* call_gemini_api, up to the model call.                                  *)
(***************************************************************************)
(* os.environ.get('GEMINI_API_KEY'): unset, or set to a string. *)
ApiKeys == {[present |-> FALSE, value |-> ""],
            [present |-> TRUE, value |-> ""],
            [present |-> TRUE, value |-> "key"]}

(* not api_key *)
NotApiKey(key) == ~key.present \/ key.value = ""

(* Mutant: the payload is decoded before the key is looked at. *)
CallGeminiStartDecodeFirst(key, image_data) ==
    IF ~B64DecodeOk(ImageB64(image_data))
    THEN [kind |-> "raise", result |-> NoKeyResult, decodes |-> 1]
    ELSE IF NotApiKey(key)
         THEN [kind |-> "return", result |-> NoKeyResult, decodes |-> 1]
         ELSE [kind |-> "call", result |-> NoKeyResult, decodes |-> 1]

CallGeminiStart(key, image_data) ==
    IF NotApiKey(key)
    THEN [kind |-> "return", result |-> NoKeyResult, decodes |-> 0]
    ELSE IF ~B64DecodeOk(ImageB64(image_data))
         THEN [kind |-> "raise", result |-> NoKeyResult, decodes |-> 1]
         ELSE [kind |-> "call", result |-> NoKeyResult, decodes |-> 1]

(***************************************************************************)
(* analyze_food.                                                           *)
(***************************************************************************)
(* A Python str given character by character. *)
JText(cs) == JV("text", "", cs)

NoResult == Result(FALSE, JNull, "", <<>>)
NoResponse == [status |-> 0, success |-> FALSE, error |-> "", result |-> NoResult]
ErrorResponse(status, error) ==
    [status |-> status, success |-> FALSE, error |-> error, result |-> NoResult]
SuccessResponse(result) ==
    [status |-> 200, success |-> TRUE, error |-> "", result |-> result]

(* not data *)
Falsy(data) == ~Truthy(data)

(* 'image' in data: key of a dict, element of a list; TypeError otherwise. *)
InRaises(data) == data.t \notin {"obj", "arr"}
InData(data, key) ==
    IF data.t = "obj" THEN DictHas(data, key)
    ELSE \E i \in 1..Len(data.e) : data.e[i] = JStr(key)

(* What the handler does before the model is called: a response, or the    *)
(* call. get_json raises BadRequest on a body that is not JSON; every       *)
(* exception ends in the handler's except clause.                           *)
AnalyzeStart(b, key) ==
    LET respond(r) == [kind |-> "respond", response |-> r, lookups |-> 0, decodes |-> 0]
        fault == respond(ErrorResponse(500, ErrAnalysis))
    IN  IF ~b.ok THEN fault
        ELSE IF Falsy(b.data) THEN respond(ErrorResponse(400, ErrNoImage))
        ELSE IF InRaises(b.data) THEN fault
        ELSE IF ~InData(b.data, "image") THEN respond(ErrorResponse(400, ErrNoImage))
        ELSE IF b.data.t # "obj" THEN fault
        ELSE LET image_data == DictGet(b.data, "image", JNull)
             IN  IF image_data.t # "text" THEN fault
                 ELSE IF ~StartsWith(image_data.e, DataImagePrefix)
                      THEN respond(ErrorResponse(400, ErrInvalidFormat))
                 ELSE LET g == CallGeminiStart(key, image_data.e)
                      IN  CASE g.kind = "return" ->
                                 [kind |-> "respond", response |-> SuccessResponse(g.result),
                                  lookups |-> 1, decodes |-> g.decodes]
                            [] g.kind = "raise" ->
                                 [kind |-> "respond",
                                  response |-> ErrorResponse(500, ErrAnalysis),
                                  lookups |-> 1, decodes |-> g.decodes]
                            [] g.kind = "call" ->
                                 [kind |-> "call", response |-> NoResponse,
                                  lookups |-> 1, decodes |-> g.decodes]

(***************************************************************************)
(* The inputs: request bodies and model replies.                           *)
(***************************************************************************)
TailChars == {"A", "=", ","}

(* Image strings: with and without the data:image/ prefix. *)
Images ==
    {DataImagePrefix \o t : t \in BSeq(TailChars, MaxTail)}
        \cup BSeq(TailChars, MaxTail)

(* Request bodies: not JSON at all (ok = FALSE), or a JSON value. *)
Bodies ==
    {[ok |-> FALSE, data |-> JNull]}
        \cup {[ok |-> TRUE, data |-> d] :
                d \in {JNull, JNum("1"), JObj(<<>>),
                       JObj(<<JPair("name", JStr("a"))>>),
                       JArr(<<JStr("image")>>),
                       JObj(<<JPair("image", JNum("1"))>>),
                       JObj(<<JPair("image", JNull)>>)}}
        \cup {[ok |-> TRUE, data |-> JObj(<<JPair("image", JText(i))>>)] :
                i \in Images}

(* The items a reply may list: the shape the prompt asks for, and the ways  *)
(* a reply departs from it.                                                 *)
Item(name, risk, details) ==
    JObj(<<JPair("name", JStr(name)), JPair("risk", risk),
           JPair("details", JStr(details))>>)

Items ==
    {Item("a", JTrue, "d"), Item("b", JTrue, ""), Item("a", JFalse, ""),
     Item("a", JStr("no"), "d"),
     JObj(<<JPair("name", JStr("b")), JPair("details", JStr("d"))>>),
     JObj(<<JPair("risk", JTrue), JPair("details", JStr("d"))>>),
     JObj(<<JPair("name", JStr("a")), JPair("risk", JTrue)>>)}

Docs ==
    {JObj(<<JPair("foods", JArr(fs))>>) : fs \in BSeq(Items, MaxFoods)}
        \cup {JObj(<<>>)}
        \cup {JObj(<<JPair("foods", v)>>) :
                v \in {JNull, JNum("1"), JStr(""), JStr("a"),
                       JArr(<<JNum("1")>>),
                       JObj(<<JPair("a", JNum("1"))>>)}}

(* json.dumps, token by token. *)
RECURSIVE Serialize(_), SerializeAll(_)
Serialize(v) ==
    CASE v.t \in {"str", "num"} -> <<v.s>>
      [] v.t \in {"true", "false", "null"} -> <<v.t>>
      [] v.t = "pair" -> <<v.s, ":">> \o Serialize(v.e[1])
      [] v.t = "arr" -> <<"[">> \o SerializeAll(v.e) \o <<"]">>
      [] v.t = "obj" -> <<"{">> \o SerializeAll(v.e) \o <<"}">>

SerializeAll(vs) ==
    IF vs = <<>> THEN <<>>
    ELSE IF Len(vs) = 1 THEN Serialize(vs[1])
    ELSE Serialize(vs[1]) \o <<",">> \o SerializeAll(Tail(vs))

Prefixes == {<<>>, <<"Here">>, <<"{", "Here", "}">>}
Suffixes == {<<>>, <<"thanks">>, <<"{", "}">>}

(* What response.text may be: a document with text around it, or no        *)
(* document.                                                                *)
Replies ==
    {p \o Serialize(d) \o q : p \in Prefixes, d \in Docs, q \in Suffixes}
        \cup {<<>>, <<"Here">>, <<"}", "Here", "{">>, <<"{", "Here">>,
              <<"{", "foods", ":", "[", "}">>}

(***************************************************************************)
(* The state machine: one request to /analyze, or one direct call of       *)
(* analyze_image_mock (no route calls it).                                  *)
(***************************************************************************)
Init ==
    /\ pc = "idle"
    /\ apiKey \in ApiKeys
    /\ body = [ok |-> FALSE, data |-> JNull]
    /\ reply = <<>>
    /\ response = NoResponse
    /\ calls = 0
    /\ decodes = 0
    /\ keyLookups = 0
    /\ mockResult = NoResult

(* analyze_food from the request to its response or to the model call. *)
Receive ==
    /\ pc = "idle"
    /\ \E b \in Bodies :
         LET a == AnalyzeStart(b, apiKey)
         IN  /\ body' = b
             /\ response' = a.response
             /\ keyLookups' = a.lookups
             /\ decodes' = a.decodes
             /\ calls' = IF a.kind = "call" THEN 1 ELSE 0
             /\ pc' = IF a.kind = "call" THEN "calling" ELSE "done"
    /\ UNCHANGED <<apiKey, reply, mockResult>>

(* model.generate_content returns and response.text is read. *)
ModelReturns ==
    /\ pc = "calling"
    /\ \E text \in Replies :
         /\ reply' = text
         /\ response' = SuccessResponse(InterpretReply(text))
    /\ pc' = "done"
    /\ UNCHANGED <<apiKey, body, calls, decodes, keyLookups, mockResult>>

(* Mutant: the exception of the model call is not caught in call_gemini_api. *)
ModelRaisesUncaught ==
    /\ pc = "calling"
    /\ response' = ErrorResponse(500, ErrAnalysis)
    /\ pc' = "failed"
    /\ UNCHANGED <<apiKey, body, reply, calls, decodes, keyLookups, mockResult>>

(* Mutant: a failed call is tried again. *)
ModelRaisesRetry ==
    /\ pc = "calling"
    /\ calls < 3
    /\ calls' = calls + 1
    /\ UNCHANGED <<pc, apiKey, body, reply, response, decodes, keyLookups, mockResult>>

(* model.generate_content, or reading response.text, raises. *)
ModelRaises ==
    /\ pc = "calling"
    /\ response' = SuccessResponse(ApiErrorResult)
    /\ pc' = "failed"
    /\ UNCHANGED <<apiKey, body, reply, calls, decodes, keyLookups, mockResult>>

MockClassify ==
    /\ pc = "idle"
    /\ \E hit \in BOOLEAN, food_type \in AVOID_FOODS :
         mockResult' = analyze_image_mock(hit, food_type)
    /\ pc' = "mocked"
    /\ UNCHANGED <<apiKey, body, reply, response, calls, decodes, keyLookups>>

Next == Receive \/ ModelReturns \/ ModelRaises \/ MockClassify

Spec == Init /\ [][Next]_vars

(***************************************************************************)
(* Vocabulary of the properties.                                           *)
(***************************************************************************)
(* The handler has responded. pc = "failed": after the model call raised;  *)
(* pc = "done" with calls = 1: after the model replied.                    *)
Finished == pc \in {"done", "failed"}
ModelReplied == pc = "done" /\ calls = 1
ModelCallFailed == pc = "failed"

JsonObjectBody == body.ok /\ body.data.t = "obj"
HasImageField == JsonObjectBody /\ DictHas(body.data, "image")
ImageField == DictGet(body.data, "image", JNull)

(* The request passes input validation: an image string that starts with   *)
(* data:image/.                                                             *)
ValidRequest ==
    /\ HasImageField
    /\ ImageField.t = "text"
    /\ StartsWith(ImageField.e, DataImagePrefix)

CredentialMissing == ~apiKey.present \/ apiKey.value = ""
PayloadDecodes == B64DecodeOk(ImageB64(ImageField.e))

FailedResult(r) == r.safe = FALSE /\ r.detected_food = JNull

(* ---------------------------------------------------------------------- *)
(* C1: a JSON-object body with no image field, or with an image field that *)
(* does not start with data:image/, is answered 400 with an error message, *)
(* with no credential lookup, no decode and no model call.                  *)
(* Stated as written; the handler answers 500 when the image field is not  *)
(* a string.                                                                *)
C1_InvalidInputIs400 ==
    (Finished /\ JsonObjectBody /\ ~ValidRequest)
        => /\ response.status = 400
           /\ response.error # ""
           /\ keyLookups = 0 /\ decodes = 0 /\ calls = 0

(* ---------------------------------------------------------------------- *)
(* C2: a request that passes validation and then fails for a missing       *)
(* credential, a failed model call, or a reply with no JSON or invalid     *)
(* JSON in it is answered 200 {success: true, result} with safe = false    *)
(* and detected_food = null; none of these is a 500.                        *)
ReplyHasNoJson ==
    ~\E i \in 1..Len(reply) :
        reply[i] = "{" /\ \E j \in (i + 1)..Len(reply) : reply[j] = "}"

(* The text from the first "{" of the reply to its last "}". *)
ReplySpan ==
    LET opens == {i \in 1..Len(reply) : reply[i] = "{"}
        closes == {j \in 1..Len(reply) : reply[j] = "}"}
        lo == CHOOSE i \in opens : \A k \in opens : i <= k
        hi == CHOOSE j \in closes : \A k \in closes : k <= j
    IN  IF ReplyHasNoJson THEN <<>> ELSE SubSeq(reply, lo, hi)

ReplyJsonInvalid == ~ReplyHasNoJson /\ ~JsonLoads(ReplySpan).ok

C2_AnticipatedFailuresAre200 ==
    (/\ Finished /\ ValidRequest
     /\ \/ CredentialMissing
        \/ ModelCallFailed
        \/ ModelReplied /\ (ReplyHasNoJson \/ ReplyJsonInvalid))
        => /\ response.status = 200
           /\ response.success
           /\ FailedResult(response.result)

C2_Witness ==
    /\ ModelReplied /\ ValidRequest
    /\ ReplyJsonInvalid
    /\ response.status = 200

(* ---------------------------------------------------------------------- *)
(* C3: with no credential configured a valid request is answered 200 with  *)
(* {safe: false, detected_food: null, the missing-key message, details ""},*)
(* before the payload is decoded and with no model call.                    *)
C3_NoCredentialResult ==
    (Finished /\ ValidRequest /\ CredentialMissing)
        => /\ response = SuccessResponse(Result(FALSE, JNull, MsgNoApiKey, <<>>))
           /\ keyLookups = 1 /\ decodes = 0 /\ calls = 0

(* The key is set but empty, and the payload would not decode. *)
C3_Witness ==
    /\ Finished /\ ValidRequest
    /\ apiKey.present /\ apiKey.value = ""
    /\ ~PayloadDecodes
    /\ response.status = 200
    /\ response.result.message = MsgNoApiKey

(* ---------------------------------------------------------------------- *)
(* C4, as written: with no credential, or when the model call fails, the   *)
(* result's detected_food is one of the five category ids or "safe_food".  *)
C4_FallsBackToCatalog ==
    (Finished /\ ValidRequest /\ (CredentialMissing \/ ModelCallFailed))
        => response.result.detected_food
               \in {JStr(c) : c \in AVOID_FOODS \cup {"safe_food"}}

(* C4, amended: with no credential, or when the model call fails, the      *)
(* request is answered with a failed result, safe = false and              *)
(* detected_food = null; analyze_image_mock is not consulted.               *)
C4_NoFallback ==
    (Finished /\ ValidRequest /\ (CredentialMissing \/ ModelCallFailed))
        => /\ response.success
           /\ FailedResult(response.result)
           /\ response.result.message \in {MsgNoApiKey, MsgApiCallError}
           /\ mockResult = NoResult

C4_Witness ==
    /\ ModelCallFailed /\ ValidRequest
    /\ response.result.detected_food = JNull
    /\ response.result.message = MsgApiCallError

(* ---------------------------------------------------------------------- *)
(* The results produced: the one in a success response, and the one        *)
(* analyze_image_mock returned.                                             *)
Produced ==
    (IF Finished /\ response.success THEN {response.result} ELSE {})
        \cup (IF pc = "mocked" THEN {mockResult} ELSE {})

(* detected_food is a hazard category id or a non-empty sequence of names. *)
DenotesHazard(detected_food) ==
    \/ detected_food \in {JStr(c) : c \in AVOID_FOODS}
    \/ detected_food.t = "arr" /\ detected_food.e # <<>>

(* C5, as written: every result has safe = true iff detected_food denotes  *)
(* no hazard and details is empty.                                          *)
C5_SafeIffNoHazard ==
    \A r \in Produced :
        r.safe <=> (~DenotesHazard(r.detected_food) /\ r.details = <<>>)

(* C5, amended: every result has safe = true iff detected_food is not null,*)
(* denotes no hazard, and details is empty; a result with detected_food =  *)
(* null (an error result) has safe = false.                                 *)
C5_SafeIffNoHazardUnlessNull ==
    \A r \in Produced :
        r.safe <=> (/\ r.detected_food # JNull
                    /\ ~DenotesHazard(r.detected_food)
                    /\ r.details = <<>>)

C5_Witness ==
    /\ ModelReplied
    /\ response.result.safe = FALSE
    /\ response.result.detected_food.t = "arr"
    /\ Len(response.result.detected_food.e) = 2
    /\ response.result.details # <<>>

(* ---------------------------------------------------------------------- *)
(* The reply's JSON object and the items the claim calls flagged: those    *)
(* whose risk is true.                                                      *)
ReplyParses == ModelReplied /\ ~ReplyHasNoJson /\ JsonLoads(ReplySpan).ok
ReplyFoods == DictGet(JsonLoads(ReplySpan).v, "foods", JArr(<<>>))

(* foods is a sequence of objects that each carry a name and details. *)
FoodsWellShaped ==
    /\ ReplyFoods.t = "arr"
    /\ \A i \in 1..Len(ReplyFoods.e) :
          /\ ReplyFoods.e[i].t = "obj"
          /\ DictHas(ReplyFoods.e[i], "name")
          /\ DictHas(ReplyFoods.e[i], "details")

RiskIsTrue(f) == DictGet(f, "risk", JNull) = JTrue
Flagged == SelectSeq(ReplyFoods.e, RiskIsTrue)

(* C6: for a reply whose JSON object parses, an item is flagged exactly    *)
(* when its risk is true; with no flagged item the result is {safe: true,  *)
(* detected_food: [], details: ""}; otherwise safe = false, detected_food  *)
(* is the flagged items' names in order and details has one line           *)
(* "name: details" per flagged item in order.                               *)
(* Stated as written, for replies whose foods is a sequence of objects     *)
(* with name and details; the code flags every item whose risk is truthy.  *)
C6_FlaggedWhenRiskTrue ==
    (ReplyParses /\ FoodsWellShaped)
        => IF Flagged = <<>>
           THEN /\ response.result.safe = TRUE
                /\ response.result.detected_food = JArr(<<>>)
                /\ response.result.details = <<>>
           ELSE /\ response.result.safe = FALSE
                /\ response.result.detected_food = JArr(FoodNames(Flagged))
                /\ response.result.details = JoinLines(Flagged)

(* C6, on replies whose items carry a boolean risk or none: there the      *)
(* verdict is the one the claim describes.                                  *)
C6_HoldsForBooleanRisk ==
    (/\ ReplyParses /\ FoodsWellShaped
     /\ \A i \in 1..Len(ReplyFoods.e) :
           DictGet(ReplyFoods.e[i], "risk", JNull) \in {JTrue, JFalse, JNull})
        => C6_FlaggedWhenRiskTrue

(* ---------------------------------------------------------------------- *)
(* The first balanced outermost {...} of the reply: from the first "{"     *)
(* that has a matching "}" to that "}".                                     *)
RECURSIVE CloseOf(_, _, _)
CloseOf(text, i, depth) ==
    IF i > Len(text) THEN 0
    ELSE IF text[i] = "{" THEN CloseOf(text, i + 1, depth + 1)
    ELSE IF text[i] = "}"
         THEN IF depth = 1 THEN i ELSE CloseOf(text, i + 1, depth - 1)
    ELSE CloseOf(text, i + 1, depth)

BalancedSpan ==
    LET starts == {i \in 1..Len(reply) :
                      reply[i] = "{" /\ CloseOf(reply, i + 1, 1) # 0}
        lo == CHOOSE i \in starts : \A k \in starts : i <= k
    IN  IF starts = {} THEN <<>> ELSE SubSeq(reply, lo, CloseOf(reply, lo + 1, 1))

(* C7, as written: a reply with nothing that looks like a JSON object      *)
(* gives safe = false, detected_food = null, the extraction-failure        *)
(* message and details = the whole reply; a reply whose first balanced     *)
(* outermost {...} does not parse gives safe = false, detected_food = null,*)
(* the parse-error message and details = that balanced substring.           *)
C7_BalancedSpanFailures ==
    ModelReplied =>
        /\ ReplyHasNoJson
              => response.result = Result(FALSE, JNull, MsgNoJson, reply)
        /\ (BalancedSpan # <<>> /\ ~JsonLoads(BalancedSpan).ok)
              => response.result
                     = Result(FALSE, JNull, MsgJsonParseError, BalancedSpan)

(* C7, amended: a reply with no "{" followed by a "}" gives safe = false,  *)
(* detected_food = null, the extraction-failure message and details = the  *)
(* whole reply; otherwise the matched substring runs from the first "{" to *)
(* the last "}" of the reply, and when it does not parse as JSON the       *)
(* result is safe = false, detected_food = null, the parse-error message   *)
(* and details = exactly that substring.                                    *)
C7_GreedySpanFailures ==
    ModelReplied =>
        /\ ReplyHasNoJson
              => response.result = Result(FALSE, JNull, MsgNoJson, reply)
        /\ ReplyJsonInvalid
              => response.result
                     = Result(FALSE, JNull, MsgJsonParseError, ReplySpan)

(* The first balanced {...} parses, the matched substring does not. *)
C7_Witness ==
    /\ ModelReplied
    /\ ReplyJsonInvalid
    /\ BalancedSpan # ReplySpan
    /\ JsonLoads(BalancedSpan).ok
    /\ response.result.details = ReplySpan
    /\ ReplySpan # reply

(* ---------------------------------------------------------------------- *)
(* C8: when the base64 part of the payload cannot be decoded, the request  *)
(* is answered with a structured failed result (safe = false,              *)
(* detected_food = null), not by the endpoint's catch-all.                  *)
(* Stated as written; b64decode raises outside any try of                  *)
(* call_gemini_api and the handler answers 500.                             *)
C8_DecodeFailureIsResult ==
    (Finished /\ ValidRequest /\ ~CredentialMissing /\ ~PayloadDecodes)
        => /\ response.status = 200
           /\ response.success
           /\ FailedResult(response.result)

(* ---------------------------------------------------------------------- *)
(* C9: the model is called at most once per request: once when validation  *)
(* passes, a credential is present and the payload decodes, never          *)
(* otherwise; a failed call is not retried and is answered at once with    *)
(* safe = false and detected_food = null.                                   *)
C9_AtMostOneCall ==
    /\ calls \in {0, 1}
    /\ pc # "idle" =>
          (calls = 1 <=> (ValidRequest /\ ~CredentialMissing /\ PayloadDecodes))
    /\ ModelCallFailed =>
          /\ calls = 1
          /\ response.success
          /\ FailedResult(response.result)
    /\ pc = "mocked" => calls = 0

C9_Witness ==
    /\ ModelCallFailed
    /\ calls = 1
    /\ response.status = 200

(* ---------------------------------------------------------------------- *)
(* C10: for every reply text received from the model the result is one of  *)
(* the interpreter's four outcomes (extraction failure, JSON parse error,  *)
(* safe, risk detected); the API-call-error message is returned only when  *)
(* the call itself failed.                                                  *)
(* Stated as written; an exception raised while the verdict is computed    *)
(* from a parsed reply is reported as an API call error.                    *)
C10_ApiErrorOnlyWhenCallFailed ==
    ModelReplied =>
        /\ response.result.message
               \in {MsgNoJson, MsgJsonParseError, MsgSafe, MsgRisk}
        /\ response.result.message # MsgApiCallError

====
